---- MODULE Spec2Model ----
(***************************************************************************)
(* Model of the Sugar-AI activity (src/activity.py): the UI thread's       *)
(* handlers, the GLib idle queue, the background worker that runs          *)
(* SugarAIActivity._make_api_request with its bounded retry loop, and      *)
(* read_file / write_file.                                                 *)
(*                                                                         *)
(* Text is modelled as a sequence of string fragments: a word or a literal *)
(* of the source is one fragment, and a character that stripping,          *)
(* splitting into lines, prefix tests or percent-encoding look at (space,  *)
(* newline, '%', '?', ...) is a fragment of its own.                       *)
(***************************************************************************)
EXTENDS Integers, Sequences, FiniteSets, TLC

(* ----------------------------- bounds ---------------------------------- *)
\* number of worker threads that may exist at once
MaxThreads == 2
\* number of entries of a stored conversation
MaxEntries == 2

(* ------------------------ program constants ---------------------------- *)
max_retries == 3
retry_delays == <<60, 120, 180>>
api_base_url == "https://ai.sugarlabs.org"

(* ----------------------------- text ------------------------------------ *)
Whitespace == {" ", "\n", "\t"}

RECURSIVE LStrip(_)
LStrip(s) ==
    IF s = <<>> THEN <<>>
    ELSE IF Head(s) \in Whitespace THEN LStrip(Tail(s)) ELSE s

RECURSIVE RStrip(_)
RStrip(s) ==
    IF s = <<>> THEN <<>>
    ELSE IF s[Len(s)] \in Whitespace THEN RStrip(SubSeq(s, 1, Len(s) - 1)) ELSE s

\* str.strip()
Strip(s) == RStrip(LStrip(s))

\* "How do I use Pygame in a Sugar activity?": words, and the characters
\* between them one by one
PygameQuestion ==
    <<"How", " ", "do", " ", "I", " ", "use", " ", "Pygame", " ", "in", " ", "a", " ",
      "Sugar", " ", "activity", "?">>

\* what the user may type into the question entry
TypedTexts == { <<" ">>, <<" ">> \o PygameQuestion \o <<" ">> }

\* the example-question buttons
example_questions == { PygameQuestion }

\* what the user may type into the API-key dialog
KeyTexts == { <<" ">>, <<"k", " ">> }

(* ------------------------- server responses ---------------------------- *)
NoQuota == [kind |-> "absent", has_remaining |-> FALSE, remaining |-> "",
            has_total |-> FALSE, total |-> ""]

\* the value of the body's "quota" member: absent, a non-object (5), or an
\* object with any subset of the members remaining and total
ScalarQuota == [kind |-> "scalar", has_remaining |-> FALSE, remaining |-> "",
                has_total |-> FALSE, total |-> ""]
EmptyQuota == [kind |-> "dict", has_remaining |-> FALSE, remaining |-> "",
               has_total |-> FALSE, total |-> ""]
PartialQuota == [kind |-> "dict", has_remaining |-> TRUE, remaining |-> "9",
                 has_total |-> FALSE, total |-> ""]
FullQuota == [kind |-> "dict", has_remaining |-> TRUE, remaining |-> "9",
              has_total |-> TRUE, total |-> "10"]
Quotas == {NoQuota, ScalarQuota, EmptyQuota, PartialQuota, FullQuota}

NoBody == [parse |-> "none", has_answer |-> FALSE, answer |-> "", quota |-> NoQuota]

\* bodies of a response: text that is not JSON, or a JSON object with an
\* optional answer and an optional quota
Bodies ==
    { [parse |-> "notjson", has_answer |-> FALSE, answer |-> "", quota |-> NoQuota] }
    \cup { [parse |-> "object", has_answer |-> TRUE, answer |-> "A loop repeats code.",
            quota |-> q] : q \in Quotas }
    \cup { [parse |-> "object", has_answer |-> FALSE, answer |-> "", quota |-> NoQuota] }

StatusCodes == {200, 401, 429, 500, 503, 504}

\* what requests.post can do: return a response, or raise
\* (text is response.text for a response and str(e) for an exception)
Outcomes ==
    { [exc |-> "", status |-> 200, body |-> b, text |-> ""] : b \in Bodies }
    \cup { [exc |-> "", status |-> s, body |-> NoBody, text |-> "Internal Server Error"]
           : s \in StatusCodes \ {200} }
    \cup { [exc |-> e, status |-> 0, body |-> NoBody, text |-> "detail"]
           : e \in {"Timeout", "ConnectionError", "Exception"} }

(* ------------------------------ state ---------------------------------- *)
VARIABLES
    api_key,              \* self._api_key
    rag_active,           \* self._rag_button.get_active()
    conversation_history, \* self._conversation_history
    is_requesting,        \* self._is_requesting
    entry_sensitive,      \* self._question_entry sensitivity
    ask_sensitive,        \* self._ask_button sensitivity
    ask_label,            \* self._ask_button label
    entry_text,           \* self._question_entry text
    chat_buffer,          \* self._chat_buffer, as the sequence of inserts
    alert_open,           \* an error alert added with add_alert is open
    idle_queue,           \* callbacks queued with GLib.idle_add, FIFO
    workers,              \* the threads started by _on_ask_clicked
    events,               \* history of the latest orchestration
    journal               \* the file write_file wrote last

vars == <<api_key, rag_active, conversation_history, is_requesting,
          entry_sensitive, ask_sensitive, ask_label, entry_text, chat_buffer,
          alert_open, idle_queue, workers, events, journal>>

WorkerIds == 1..MaxThreads

\* a thread that does not exist: never started, or ended
NoWorker == [pc |-> "none", attempt |-> 0, question |-> <<>>, endpoint |-> "",
             headers |-> <<>>]

\* a worker is in flight from Thread.start() until _make_api_request returns
InFlight(w) == workers[w].pc /= "none"

(* ----------------------- history of an orchestration -------------------- *)
Ev(ev, attempt) ==
    [ev |-> ev, attempt |-> attempt, fn |-> "", text |-> <<>>, key |-> <<>>,
     secs |-> 0, status |-> 0, exc |-> "", body |-> NoBody]

\* a question is accepted while `key` is the configured API key
SubmitEv(question, key) ==
    [Ev("submit", 0) EXCEPT !.text = question, !.key = key]
NotifyEv(attempt, fn, text) ==
    [Ev("notify", attempt) EXCEPT !.fn = fn, !.text = text]
SleepEv(attempt, secs) == [Ev("sleep", attempt) EXCEPT !.secs = secs]
\* a request is sent with `text` as the question parameter of its query string
HttpEv(attempt, query) == [Ev("http", attempt) EXCEPT !.text = query]
ResponseEv(attempt, o) ==
    [Ev("response", attempt) EXCEPT !.status = o.status, !.exc = o.exc, !.body = o.body]
ReenableEv == Ev("reenable", 0)

(* ------------------------- persisted session --------------------------- *)
\* an element of "conversation_history": a JSON object that may lack either
\* member
Entry(type, message) ==
    [has_type |-> TRUE, type |-> type, has_message |-> TRUE, message |-> message]
NoTypeEntry(message) ==
    [has_type |-> FALSE, type |-> "", has_message |-> TRUE, message |-> message]
NoMessageEntry(type) ==
    [has_type |-> TRUE, type |-> type, has_message |-> FALSE, message |-> <<>>]

\* a session file: one json.load cannot read (missing, not JSON, not an
\* object), or a JSON object that may lack either member
FileData(has_key, key, has_history, history) ==
    [readable |-> TRUE, has_key |-> has_key, api_key |-> key,
     has_history |-> has_history, conversation_history |-> history]
UnreadableFile ==
    [readable |-> FALSE, has_key |-> FALSE, api_key |-> <<>>,
     has_history |-> FALSE, conversation_history |-> <<>>]

\* the texts of the stored messages
Messages ==
    { <<"hi">>, <<>>, <<" ", "hi">>, <<"hi", "\n", "there">>,
      <<"hi", "\n", "You:", " ", "there">> }

\* the role of the i-th entry of an alternating conversation
Role(i) == IF i % 2 = 1 THEN "user" ELSE "ai"
\* the conversations of n alternating user/ai entries
Alternations(n) ==
    { [i \in 1..n |-> Entry(Role(i), ms[i])] : ms \in [1..n -> Messages] }
\* conversations with an entry that is neither user nor ai, or that lacks a member
OddConversations ==
    { <<Entry("system", <<"hi">>), Entry("user", <<"hi">>)>>,
      <<Entry("user", <<"hi">>), NoTypeEntry(<<"hi">>)>>,
      <<Entry("user", <<"hi">>), NoMessageEntry("ai")>>,
      <<NoMessageEntry("system"), Entry("ai", <<"hi">>)>> }
StoredConversations ==
    UNION { Alternations(n) : n \in 0..MaxEntries } \cup OddConversations

\* the session files read_file may be given
Files ==
    {UnreadableFile}
    \cup { FileData(TRUE, <<"k">>, TRUE, c) : c \in StoredConversations }
    \cup { FileData(FALSE, <<>>, TRUE, c) : c \in StoredConversations }
    \cup { FileData(TRUE, <<"k">>, FALSE, <<>>), FileData(FALSE, <<>>, FALSE, <<>>) }

(* ------------------------------ Init ----------------------------------- *)
\* __init__: the key is "" or whatever _load_api_key found in config.json
Init ==
    /\ api_key \in {Strip(k) : k \in KeyTexts}
    /\ rag_active = TRUE
    /\ conversation_history = <<>>
    /\ is_requesting = FALSE
    /\ entry_sensitive = TRUE
    /\ ask_sensitive = TRUE
    /\ ask_label = "Ask"
    /\ entry_text = <<>>
    /\ chat_buffer = <<>>
    /\ alert_open = FALSE
    /\ idle_queue = <<>>
    /\ workers = [w \in WorkerIds |-> NoWorker]
    /\ events = <<>>
    /\ journal = UnreadableFile

(* --------------------------- UI thread --------------------------------- *)
Newlines == <<"\n", "\n">>

\* the text each _add_*_message inserts at the end of the buffer
\* "You: " and the other prefixes, with the space as a character of its own
UserPrefix == <<"You:", " ">>
AiPrefix == <<"Sugar-AI:", " ">>
ErrorPrefix == <<"Error:", " ">>
UserInsert(message) == [tag |-> "user", text |-> UserPrefix \o message \o Newlines]
AiInsert(message) == [tag |-> "ai", text |-> AiPrefix \o message \o Newlines]
ErrorInsert(message) == [tag |-> "error", text |-> ErrorPrefix \o message \o Newlines]
SystemInsert(message) == [tag |-> "system", text |-> <<"[">> \o message \o <<"]">> \o Newlines]

ThinkingMsg == <<"Sugar-AI is thinking... This may take 2-5 minutes, please be patient.">>
ClearedMsg == <<"Conversation cleared.">>

\* the insert a queued or direct call of fn(message) makes
InsertOf(fn, message) ==
    CASE fn = "_add_user_message" -> UserInsert(message)
      [] fn = "_add_ai_message" -> AiInsert(message)
      [] fn = "_add_error_message" -> ErrorInsert(message)
      [] fn = "_add_system_message" -> SystemInsert(message)

\* _set_input_sensitive without the assignment to _is_requesting
SetInputSensitiveNoFlag(sensitive) ==
    /\ entry_sensitive' = sensitive
    /\ ask_sensitive' = sensitive
    /\ is_requesting' = is_requesting
    /\ ask_label' = IF sensitive THEN "Ask" ELSE "Thinking..."

\* _set_input_sensitive(sensitive)
SetInputSensitive(sensitive) ==
    /\ entry_sensitive' = sensitive
    /\ ask_sensitive' = sensitive
    /\ is_requesting' = ~sensitive
    /\ ask_label' = IF sensitive THEN "Ask" ELSE "Thinking..."

\* the endpoint the RAG toggle selects
Endpoint(active) == IF active THEN "/ask" ELSE "/ask-llm"

\* The model follows a question from a fresh chat view, empty or just cleared:
\* what an earlier orchestration left in the transcript is cleared before the
\* next question is asked.
FreshTranscript == chat_buffer \in {<<>>, <<SystemInsert(ClearedMsg)>>}

\* the preconditions without the test of the API key
AskRejectionNoKeyTest ==
    IF Strip(entry_text) = <<>> THEN "empty"
    ELSE IF is_requesting THEN "requesting"
    ELSE "none"

\* the preconditions without the test of _is_requesting
AskRejectionNoRequestingTest ==
    IF Strip(entry_text) = <<>> THEN "empty"
    ELSE IF api_key = <<>> THEN "nokey"
    ELSE "none"

\* the preconditions of _on_ask_clicked, in the order the handler tests them
AskRejection ==
    IF Strip(entry_text) = <<>> THEN "empty"
    ELSE IF api_key = <<>> THEN "nokey"
    ELSE IF is_requesting THEN "requesting"
    ELSE "none"

\* _on_ask_clicked with the thinking notice added before the question
OnAskClickedThinkingFirst ==
    LET question == Strip(entry_text) IN
    CASE AskRejection = "empty" -> UNCHANGED vars
      [] AskRejection = "nokey" ->
            \* _show_error_alert
            /\ alert_open' = TRUE
            /\ UNCHANGED <<api_key, rag_active, conversation_history, is_requesting,
                           entry_sensitive, ask_sensitive, ask_label, entry_text,
                           chat_buffer, idle_queue, workers, events, journal>>
      [] AskRejection = "requesting" -> UNCHANGED vars
      [] AskRejection = "none" ->
            /\ FreshTranscript
            /\ \E w \in WorkerIds : ~InFlight(w)
            /\ entry_text' = <<>>
            /\ chat_buffer' = chat_buffer \o <<SystemInsert(ThinkingMsg), UserInsert(question)>>
            /\ SetInputSensitive(FALSE)
            /\ LET w == CHOOSE v \in WorkerIds : ~InFlight(v) IN
                 workers' = [workers EXCEPT ![w] =
                                [NoWorker EXCEPT !.pc = "request", !.question = question]]
            /\ events' = <<SubmitEv(question, api_key)>>
            /\ UNCHANGED <<api_key, rag_active, conversation_history, alert_open,
                           idle_queue, journal>>

\* _on_ask_clicked: the Ask button or the entry's activate signal
OnAskClicked ==
    LET question == Strip(entry_text) IN
    CASE AskRejection = "empty" -> UNCHANGED vars
      [] AskRejection = "nokey" ->
            \* _show_error_alert
            /\ alert_open' = TRUE
            /\ UNCHANGED <<api_key, rag_active, conversation_history, is_requesting,
                           entry_sensitive, ask_sensitive, ask_label, entry_text,
                           chat_buffer, idle_queue, workers, events, journal>>
      [] AskRejection = "requesting" -> UNCHANGED vars
      [] AskRejection = "none" ->
            /\ FreshTranscript
            /\ \E w \in WorkerIds : ~InFlight(w)
            /\ entry_text' = <<>>
            /\ chat_buffer' = chat_buffer \o <<UserInsert(question), SystemInsert(ThinkingMsg)>>
            /\ SetInputSensitive(FALSE)
            /\ LET w == CHOOSE v \in WorkerIds : ~InFlight(v) IN
                 workers' = [workers EXCEPT ![w] =
                                [NoWorker EXCEPT !.pc = "request", !.question = question]]
            /\ events' = <<SubmitEv(question, api_key)>>
            /\ UNCHANGED <<api_key, rag_active, conversation_history, alert_open,
                           idle_queue, journal>>

\* _alert_response_cb: the user answers an open alert, which removes it;
\* other alert_open may remain open
AlertResponse ==
    /\ alert_open
    /\ alert_open' \in BOOLEAN
    /\ UNCHANGED <<api_key, rag_active, conversation_history, is_requesting,
                   entry_sensitive, ask_sensitive, ask_label, entry_text,
                   chat_buffer, idle_queue, workers, events, journal>>

\* _on_clear_clicked enabling the input again
OnClearClickedEnablesInput ==
    /\ conversation_history' = <<>>
    /\ chat_buffer' = <<SystemInsert(ClearedMsg)>>
    /\ SetInputSensitive(TRUE)
    /\ UNCHANGED <<api_key, rag_active, entry_text, alert_open, idle_queue, workers,
                   events, journal>>

\* _on_clear_clicked
OnClearClicked ==
    /\ conversation_history' = <<>>
    /\ chat_buffer' = <<SystemInsert(ClearedMsg)>>
    /\ UNCHANGED <<api_key, rag_active, is_requesting, entry_sensitive, ask_sensitive,
                   ask_label, entry_text, alert_open, idle_queue, workers, events,
                   journal>>

\* the user toggles the RAG button
ToggleRag ==
    /\ rag_active' = ~rag_active
    /\ UNCHANGED <<api_key, conversation_history, is_requesting, entry_sensitive,
                   ask_sensitive, ask_label, entry_text, chat_buffer, alert_open,
                   idle_queue, workers, events, journal>>

\* APIKeyDialog._on_save_clicked with t typed in the dialog's entry
OnSaveClicked(t) ==
    /\ api_key' = Strip(t)
    /\ UNCHANGED <<rag_active, conversation_history, is_requesting, entry_sensitive,
                   ask_sensitive, ask_label, entry_text, chat_buffer, alert_open,
                   idle_queue, workers, events, journal>>

\* the user edits the question entry, which takes input only while sensitive
UserTypes(t) ==
    /\ entry_sensitive
    /\ entry_text' = t
    /\ UNCHANGED <<api_key, rag_active, conversation_history, is_requesting,
                   entry_sensitive, ask_sensitive, ask_label, chat_buffer, alert_open,
                   idle_queue, workers, events, journal>>

\* _set_question: an example-question button
SetQuestion(q) ==
    /\ entry_text' = q
    /\ UNCHANGED <<api_key, rag_active, conversation_history, is_requesting,
                   entry_sensitive, ask_sensitive, ask_label, chat_buffer, alert_open,
                   idle_queue, workers, events, journal>>

\* the main loop runs the newest queued callback first
IdleDispatchNewestFirst ==
    /\ idle_queue /= <<>>
    /\ LET cb == idle_queue[Len(idle_queue)] IN
         IF cb.fn = "_set_input_sensitive"
         THEN /\ SetInputSensitive(cb.flag)
              /\ UNCHANGED chat_buffer
         ELSE /\ chat_buffer' = Append(chat_buffer, InsertOf(cb.fn, cb.msg))
              /\ UNCHANGED <<is_requesting, entry_sensitive, ask_sensitive, ask_label>>
    /\ idle_queue' = SubSeq(idle_queue, 1, Len(idle_queue) - 1)
    /\ UNCHANGED <<api_key, rag_active, conversation_history, entry_text, alert_open,
                   workers, events, journal>>

\* the main loop runs the oldest callback queued with GLib.idle_add
IdleDispatch ==
    /\ idle_queue /= <<>>
    /\ LET cb == Head(idle_queue) IN
         IF cb.fn = "_set_input_sensitive"
         THEN /\ SetInputSensitive(cb.flag)
              /\ UNCHANGED chat_buffer
         ELSE /\ chat_buffer' = Append(chat_buffer, InsertOf(cb.fn, cb.msg))
              /\ UNCHANGED <<is_requesting, entry_sensitive, ask_sensitive, ask_label>>
    /\ idle_queue' = Tail(idle_queue)
    /\ UNCHANGED <<api_key, rag_active, conversation_history, entry_text, alert_open,
                   workers, events, journal>>

(* ----------------------- saving and restoring -------------------------- *)
\* the text of the buffer: the inserts one after the other
RECURSIVE Concat(_)
Concat(texts) == IF texts = <<>> THEN <<>> ELSE Head(texts) \o Concat(Tail(texts))
BufferText(buffer) == Concat([i \in 1..Len(buffer) |-> buffer[i].text])

\* text.split("\n"), with `line` the characters of the line being read
RECURSIVE Split(_, _)
Split(text, line) ==
    IF text = <<>> THEN <<line>>
    ELSE IF Head(text) = "\n" THEN <<line>> \o Split(Tail(text), <<>>)
    ELSE Split(Tail(text), Append(line, Head(text)))

\* line.startswith(prefix)
StartsWith(line, prefix) ==
    Len(line) >= Len(prefix) /\ SubSeq(line, 1, Len(prefix)) = prefix
\* line[len(prefix):]
DropPrefix(line, prefix) == SubSeq(line, Len(prefix) + 1, Len(line))

\* `if current_message and current_type: conversation.append(...)`
Flush(st) ==
    IF st.current_message /= <<>> /\ st.current_type /= "None"
    THEN Append(st.conversation, Entry(st.current_type, Strip(st.current_message)))
    ELSE st.conversation

\* one iteration of write_file's loop over the lines
ParseLine(st, line) ==
    IF StartsWith(line, UserPrefix)
    THEN [conversation |-> Flush(st), current_message |-> DropPrefix(line, UserPrefix),
          current_type |-> "user"]
    ELSE IF StartsWith(line, AiPrefix)
    THEN [conversation |-> Flush(st), current_message |-> DropPrefix(line, AiPrefix),
          current_type |-> "ai"]
    ELSE IF st.current_message /= <<>>
    THEN [st EXCEPT !.current_message = @ \o <<"\n">> \o line]
    ELSE st

RECURSIVE ParseLines(_, _)
ParseLines(lines, st) ==
    IF lines = <<>> THEN st ELSE ParseLines(Tail(lines), ParseLine(st, Head(lines)))

\* the conversation write_file extracts from the text of the buffer
ParseConversation(text) ==
    Flush(ParseLines(Split(text, <<>>),
                     [conversation |-> <<>>, current_message |-> <<>>,
                      current_type |-> "None"]))

\* the data write_file dumps
WriteFileData ==
    FileData(TRUE, api_key, TRUE, ParseConversation(BufferText(chat_buffer)))

\* write_file
WriteFile ==
    /\ journal' = WriteFileData
    /\ UNCHANGED <<api_key, rag_active, conversation_history, is_requesting,
                   entry_sensitive, ask_sensitive, ask_label, entry_text, chat_buffer,
                   alert_open, idle_queue, workers, events>>

\* the loop of read_file raises KeyError on this entry
Raises(entry) ==
    ~entry.has_type \/ (entry.type \in {"user", "ai"} /\ ~entry.has_message)
\* the entries the loop of read_file goes through before it ends or raises
Restorable(history) ==
    LET bad == {i \in 1..Len(history) : Raises(history[i])}
        n == IF bad = {} THEN Len(history)
             ELSE (CHOOSE i \in bad : \A j \in bad : i <= j) - 1
    IN SubSeq(history, 1, n)
IsShown(entry) == entry.type \in {"user", "ai"}
\* the inserts the loop of read_file makes for these entries
RestoredInserts(history) ==
    LET shown == SelectSeq(history, IsShown) IN
    [i \in 1..Len(shown) |->
        IF shown[i].type = "user" THEN UserInsert(shown[i].message)
        ELSE AiInsert(shown[i].message)]

\* read_file(file): json.load raises and nothing is touched, or the key and
\* the history are taken from the data, the buffer is emptied and the entries
\* are inserted until the loop ends or raises
ReadFile(file) ==
    /\ IF ~file.readable
       THEN UNCHANGED <<api_key, conversation_history, chat_buffer>>
       ELSE LET history == IF file.has_history THEN file.conversation_history ELSE <<>> IN
            /\ api_key' = IF file.has_key THEN file.api_key ELSE <<>>
            /\ conversation_history' = history
            /\ chat_buffer' = RestoredInserts(Restorable(history))
    /\ UNCHANGED <<rag_active, is_requesting, entry_sensitive, ask_sensitive, ask_label,
                   entry_text, alert_open, idle_queue, workers, events, journal>>

(* ------------------------ background worker ---------------------------- *)
\* seq[i] with Python's 0-based index
PyIndex(seq, i) == seq[i + 1]

\* the delay indexed by the attempt instead of the attempt before it
RetryDelayOffByOne(attempt) == PyIndex(retry_delays, attempt)

\* the delay slept before attempt `attempt` (attempt > 0)
RetryDelay(attempt) == PyIndex(retry_delays, attempt - 1)

\* the last-attempt test one attempt early, and never true
IsLastAttemptEarly(attempt) == attempt = max_retries - 2
IsLastAttemptNever(attempt) == attempt = max_retries

\* `attempt == max_retries - 1`
IsLastAttempt(attempt) == attempt = max_retries - 1

Callback(fn, msg) == [fn |-> fn, msg |-> msg, flag |-> FALSE]
ReenableCallback == [fn |-> "_set_input_sensitive", msg |-> <<>>, flag |-> TRUE]

WaitingMsg(attempt) ==
    <<"Attempt ", ToString(attempt + 1), "/", ToString(max_retries),
      " - retrying in ", ToString(RetryDelay(attempt)), " seconds...">>
RetryingMsg == <<"Retrying request to Sugar-AI...">>

\* a test for the presence of the quota member instead of its truthiness
QuotaPresent(q) == q.kind /= "absent"

\* truthiness of result.get("quota", {})
QuotaTruthy(q) ==
    \/ q.kind = "scalar"
    \/ q.kind = "dict" /\ (q.has_remaining \/ q.has_total)

\* the branch of the try statement that handles outcome o of requests.post
Branch(o) ==
    CASE o.exc = "Timeout" -> "timeout"
      [] o.exc = "ConnectionError" -> "connection"
      [] o.exc = "Exception" -> "unexpected"
      [] o.exc = "" /\ o.status = 200 ->
            \* response.json(), result.get and quota.get raise on these
            IF o.body.parse /= "object" THEN "unexpected"
            ELSE IF o.body.quota.kind = "scalar" THEN "unexpected"
            ELSE "success"
      [] o.exc = "" /\ o.status = 401 -> "auth"
      [] o.exc = "" /\ o.status = 429 -> "rate_limit"
      [] o.exc = "" /\ o.status = 504 -> "gateway_timeout"
      [] o.exc = "" /\ o.status = 503 -> "unavailable"
      [] OTHER -> "other"

\* 503 retried like 504
ContinuesOn503(branch) == branch \in {"gateway_timeout", "timeout", "unavailable"}

\* the branches that end in `continue`
Continues(branch) == branch \in {"gateway_timeout", "timeout"}

\* str(e) of the exception the `except Exception` clause catches
ExceptionText(o) ==
    IF o.exc = "Exception" THEN o.text
    ELSE IF o.body.parse = "notjson" THEN "Expecting value: line 1 column 1 (char 0)"
    ELSE "'int' object has no attribute 'get'"

\* the quota and answer callbacks of the status-200 branch
SuccessCallbacks(body) ==
    LET answer == IF body.has_answer THEN body.answer ELSE "No answer received."
        quota == body.quota
        remaining == IF quota.has_remaining THEN quota.remaining ELSE "Unknown"
        total == IF quota.has_total THEN quota.total ELSE "Unknown"
    IN (IF QuotaTruthy(quota)
        THEN <<Callback("_add_system_message", <<"Quota: ", remaining, "/", total>>)>>
        ELSE <<>>)
       \o <<Callback("_add_ai_message", <<answer>>)>>

\* the callbacks the worker queues for outcome o of attempt `attempt`
Callbacks(attempt, o) ==
    LET b == Branch(o) IN
    CASE b = "success" -> SuccessCallbacks(o.body)
      [] b = "auth" ->
            <<Callback("_add_error_message",
                       <<"Invalid API key. Please check your configuration.">>)>>
      [] b = "rate_limit" ->
            <<Callback("_add_error_message",
                       <<"Rate limit exceeded. Please try again later.">>)>>
      [] b = "gateway_timeout" ->
            IF IsLastAttempt(attempt)
            THEN <<Callback("_add_error_message",
                            <<"Server timeout (504) after ", ToString(max_retries),
                              " attempts. The Sugar-AI service is experiencing high load. Please try again later.">>)>>
            ELSE <<Callback("_add_system_message",
                            <<"Server timeout (504) on attempt ", ToString(attempt + 1),
                              ". Will retry...">>)>>
      [] b = "unavailable" ->
            <<Callback("_add_error_message",
                       <<"Service unavailable (503). The Sugar-AI service may be down for maintenance. Please try again later.">>)>>
      [] b = "other" ->
            <<Callback("_add_error_message",
                       <<"API error ", ToString(o.status), ": ", o.text>>)>>
      [] b = "timeout" ->
            IF IsLastAttempt(attempt)
            THEN <<Callback("_add_error_message",
                            <<"Request timed out after 5 minutes on ", ToString(max_retries),
                              " attempts. The Sugar-AI service may be experiencing high load. Please try again later.">>)>>
            ELSE <<Callback("_add_system_message",
                            <<"Request timed out on attempt ", ToString(attempt + 1),
                              ". Will retry...">>)>>
      [] b = "connection" ->
            <<Callback("_add_error_message",
                       <<"Connection error. Please check your internet connection.">>)>>
      [] b = "unexpected" ->
            <<Callback("_add_error_message", <<"Unexpected error: ", ExceptionText(o)>>)>>

\* the history entries of a sequence of queued callbacks
NotifyEvs(attempt, cbs) == [i \in 1..Len(cbs) |-> NotifyEv(attempt, cbs[i].fn, cbs[i].msg)]

\* the retrying notice queued before the sleep instead of after it
W_SleepAfterNotice(w) ==
    /\ workers[w].pc = "sleep"
    /\ LET attempt == workers[w].attempt
           cb == Callback("_add_system_message", RetryingMsg) IN
         /\ idle_queue' = Append(idle_queue, cb)
         /\ events' = events \o <<NotifyEv(attempt, cb.fn, cb.msg),
                                  SleepEv(attempt, RetryDelay(attempt))>>
    /\ workers' = [workers EXCEPT ![w].pc = "request"]
    /\ UNCHANGED <<api_key, rag_active, conversation_history, is_requesting,
                   entry_sensitive, ask_sensitive, ask_label, entry_text,
                   chat_buffer, alert_open, journal>>

\* time.sleep returns; queue the retrying notice
W_Sleep(w) ==
    /\ workers[w].pc = "sleep"
    /\ LET attempt == workers[w].attempt
           cb == Callback("_add_system_message", RetryingMsg) IN
         /\ idle_queue' = Append(idle_queue, cb)
         /\ events' = events \o <<SleepEv(attempt, RetryDelay(attempt)),
                                  NotifyEv(attempt, cb.fn, cb.msg)>>
    /\ workers' = [workers EXCEPT ![w].pc = "request"]
    /\ UNCHANGED <<api_key, rag_active, conversation_history, is_requesting,
                   entry_sensitive, ask_sensitive, ask_label, entry_text,
                   chat_buffer, alert_open, journal>>

\* the characters percent-encoding replaces, with their two hex digits
Reserved == {" ", "%", "?", "&", "+", "=", "/"}
Hex(c) ==
    CASE c = " " -> <<"2", "0">>
      [] c = "%" -> <<"2", "5">>
      [] c = "?" -> <<"3", "F">>
      [] c = "&" -> <<"2", "6">>
      [] c = "+" -> <<"2", "B">>
      [] c = "=" -> <<"3", "D">>
      [] c = "/" -> <<"2", "F">>

\* urllib.parse.quote(text): safe is "/" by default
RECURSIVE Quote(_)
Quote(text) ==
    IF text = <<>> THEN <<>>
    ELSE (IF Head(text) \in Reserved \ {"/"} THEN <<"%">> \o Hex(Head(text))
          ELSE <<Head(text)>>) \o Quote(Tail(text))

\* the encoding requests gives the value of a query parameter
\* (urlencode, i.e. quote_plus)
RECURSIVE QuotePlus(_)
QuotePlus(text) ==
    IF text = <<>> THEN <<>>
    ELSE (IF Head(text) = " " THEN <<"+">>
          ELSE IF Head(text) \in Reserved THEN <<"%">> \o Hex(Head(text))
          ELSE <<Head(text)>>) \o QuotePlus(Tail(text))

\* the value of the question parameter as it is sent:
\* params = {"question": quote(question)}, encoded by requests.post
QueryParam(question) == QuotePlus(Quote(question))

\* build the endpoint and the X-API-Key header from the RAG button and the
\* activity's key as they are now, and send the request
W_Request(w) ==
    /\ workers[w].pc = "request"
    /\ events' = Append(events, HttpEv(workers[w].attempt,
                                       QueryParam(workers[w].question)))
    /\ workers' = [workers EXCEPT ![w].pc = "waiting",
                                  ![w].endpoint = Endpoint(rag_active),
                                  ![w].headers = api_key]
    /\ UNCHANGED <<api_key, rag_active, conversation_history, is_requesting,
                   entry_sensitive, ask_sensitive, ask_label, entry_text,
                   chat_buffer, alert_open, idle_queue, journal>>

\* requests.post returns or raises o; the worker queues the notifications of
\* o's branch and either leaves the loop, or continues with the next attempt:
\* it queues the waiting notice and goes to sleep
W_Response(w, o) ==
    /\ workers[w].pc = "waiting"
    /\ LET attempt == workers[w].attempt
           cbs == Callbacks(attempt, o)
           again == Continues(Branch(o)) /\ attempt + 1 < max_retries
           wait == IF again
                   THEN <<Callback("_add_system_message", WaitingMsg(attempt + 1))>>
                   ELSE <<>> IN
         /\ idle_queue' = idle_queue \o cbs \o wait
         /\ events' = events \o <<ResponseEv(attempt, o)>> \o NotifyEvs(attempt, cbs)
                             \o NotifyEvs(attempt + 1, wait)
         /\ workers' =
              IF again
              THEN [workers EXCEPT ![w].pc = "sleep", ![w].attempt = attempt + 1]
              ELSE [workers EXCEPT ![w].pc = "finally"]
    /\ UNCHANGED <<api_key, rag_active, conversation_history, is_requesting,
                   entry_sensitive, ask_sensitive, ask_label, entry_text,
                   chat_buffer, alert_open, journal>>

\* the finally clause queuing the re-enable ahead of what is already queued
W_FinallyAhead(w) ==
    /\ workers[w].pc = "finally"
    /\ idle_queue' = <<ReenableCallback>> \o idle_queue
    /\ events' = Append(events, ReenableEv)
    /\ workers' = [workers EXCEPT ![w] = NoWorker]
    /\ UNCHANGED <<api_key, rag_active, conversation_history, is_requesting,
                   entry_sensitive, ask_sensitive, ask_label, entry_text,
                   chat_buffer, alert_open, journal>>

\* the finally clause calling _set_input_sensitive(True) on the worker thread
W_FinallyDirect(w) ==
    /\ workers[w].pc = "finally"
    /\ SetInputSensitive(TRUE)
    /\ events' = Append(events, ReenableEv)
    /\ workers' = [workers EXCEPT ![w] = NoWorker]
    /\ UNCHANGED <<api_key, rag_active, conversation_history, entry_text,
                   chat_buffer, alert_open, idle_queue, journal>>

\* the thread ends without the finally clause
W_FinallyMissing(w) ==
    /\ workers[w].pc = "finally"
    /\ workers' = [workers EXCEPT ![w] = NoWorker]
    /\ UNCHANGED <<api_key, rag_active, conversation_history, is_requesting,
                   entry_sensitive, ask_sensitive, ask_label, entry_text,
                   chat_buffer, alert_open, idle_queue, events, journal>>

\* the finally clause, after which the thread ends
W_Finally(w) ==
    /\ workers[w].pc = "finally"
    /\ idle_queue' = Append(idle_queue, ReenableCallback)
    /\ events' = Append(events, ReenableEv)
    /\ workers' = [workers EXCEPT ![w] = NoWorker]
    /\ UNCHANGED <<api_key, rag_active, conversation_history, is_requesting,
                   entry_sensitive, ask_sensitive, ask_label, entry_text,
                   chat_buffer, alert_open, journal>>

(* --------------------------- specification ----------------------------- *)
Next ==
    \/ OnAskClicked
    \/ AlertResponse
    \/ OnClearClicked
    \/ ToggleRag
    \/ \E t \in KeyTexts : OnSaveClicked(t)
    \/ \E t \in TypedTexts : UserTypes(t)
    \/ \E q \in example_questions : SetQuestion(q)
    \/ IdleDispatch
    \/ \E w \in WorkerIds : W_Sleep(w)
    \/ \E w \in WorkerIds : W_Request(w)
    \/ \E w \in WorkerIds, o \in Outcomes : W_Response(w, o)
    \/ \E w \in WorkerIds : W_Finally(w)

Spec == Init /\ [][Next]_vars

\* The activity resumed from the journal: read_file restores a stored session
\* or the one write_file wrote last, the user may clear the conversation, and
\* write_file saves what the buffer shows.
NextFile ==
    \/ \E file \in Files : ReadFile(file)
    \/ journal.readable /\ ReadFile(journal)
    \/ OnClearClicked
    \/ WriteFile
SpecFile == Init /\ [][NextFile]_vars

(* ======================= properties of the code ======================== *)
\* the positions of the history whose event is of kind ev
Positions(ev) == {i \in 1..Len(events) : events[i].ev = ev}
Count(ev) == Cardinality(Positions(ev))

SomeInFlight == \E w \in WorkerIds : InFlight(w)
\* an orchestration was started and its worker has ended
OrchestrationOver == events /= <<>> /\ ~SomeInFlight

IsFinalNotify(e) ==
    e.ev = "notify" /\ e.fn \in {"_add_ai_message", "_add_error_message"}
IsErrorNotify(e) == e.ev = "notify" /\ e.fn = "_add_error_message"
FinalPositions == {i \in 1..Len(events) : IsFinalNotify(events[i])}
ErrorPositions == {i \in 1..Len(events) : IsErrorNotify(events[i])}

\* a response event of a transient outcome: HTTP 504 or a client-side timeout
TransientResponse(e) ==
    e.ev = "response" /\ (e.exc = "Timeout" \/ (e.exc = "" /\ e.status = 504))
\* a 200 response whose body makes the worker raise while it reads it
RaisingBody(e) ==
    e.ev = "response" /\ e.exc = "" /\ e.status = 200
    /\ (e.body.parse /= "object" \/ e.body.quota.kind = "scalar")
\* a response event of a terminal outcome: 401, 429, 503, any other status but
\* 200 and 504, a connection error, an unexpected exception
TerminalResponse(e) ==
    /\ e.ev = "response"
    /\ \/ e.exc = "" /\ e.status \notin {200, 504}
       \/ e.exc \in {"ConnectionError", "Exception"}
       \/ RaisingBody(e)

\* C1: every orchestration queues the input re-enable exactly once, as its
\* last act, on every exit path: none while the worker runs, exactly one once
\* it has ended.
ReenableExactlyOnce ==
    events /= <<>> =>
        /\ SomeInFlight => Count("reenable") = 0
        /\ ~SomeInFlight => /\ Count("reenable") = 1
                            /\ events[Len(events)].ev = "reenable"

\* C1 witness: a worker has ended by retry exhaustion (three transient
\* responses) and the re-enable is queued once.
ReenableAfterExhaustion ==
    /\ OrchestrationOver
    /\ Cardinality({i \in Positions("response") : TransientResponse(events[i])}) = 3
    /\ Count("reenable") = 1

\* C2: at most one worker is in flight at any time, and a step taken while
\* _is_requesting is true starts no worker.
AtMostOneInFlight == Cardinality({w \in WorkerIds : InFlight(w)}) <= 1
NoStartWhileRequesting ==
    is_requesting => \A w \in WorkerIds : InFlight(w)' => InFlight(w)
OneOrchestrationAtATime == []AtMostOneInFlight /\ [][NoStartWhileRequesting]_vars

\* C2 witness: a worker is in flight while a question is in the entry, a key
\* is configured and the chat view is fresh, so that only the _is_requesting
\* test stands between a click and a second worker.
SubmissionWhileRequesting ==
    /\ is_requesting
    /\ SomeInFlight
    /\ Strip(entry_text) /= <<>>
    /\ api_key /= <<>>
    /\ FreshTranscript

\* the history from position i + 1 on
After(i) == SubSeq(events, i + 1, Len(events))
\* nothing follows position i but, once the worker has ended, the re-enable
EndsAfter(i) ==
    IF SomeInFlight THEN After(i) = <<>> ELSE After(i) = <<ReenableEv>>

\* C3: a terminal outcome is followed by exactly one error notification and
\* then the re-enable, with no attempt and no sleep after it; when it is the
\* outcome of the first attempt the orchestration has made exactly one
\* attempt, no sleep, and that one error notification.
TerminalOutcomeEnds ==
    \A i \in Positions("response") :
        TerminalResponse(events[i]) =>
            /\ Len(events) > i
            /\ IsErrorNotify(events[i + 1])
            /\ EndsAfter(i + 1)
            /\ events[i].attempt = 0 =>
                  /\ Count("http") = 1
                  /\ Count("sleep") = 0
                  /\ Cardinality(ErrorPositions) = 1
                  /\ Count("notify") = 1

\* C3 witness: the first attempt returned 401 and the worker has ended.
EndedAfter401 ==
    /\ OrchestrationOver
    /\ \E i \in Positions("response") : events[i].attempt = 0 /\ events[i].status = 401

\* the attempts and sleeps of the history, in order
Timeline ==
    LET tl == SelectSeq(events, LAMBDA e : e.ev \in {"http", "sleep"}) IN
    [i \in 1..Len(tl) |-> IF tl[i].ev = "http" THEN <<"http", tl[i].attempt>>
                          ELSE <<"sleep", tl[i].secs>>]
FullTimeline ==
    << <<"http", 0>>, <<"sleep", 60>>, <<"http", 1>>, <<"sleep", 120>>, <<"http", 2>> >>
AllTransient ==
    \A i \in Positions("response") : TransientResponse(events[i])

Mentions(text, fragment) == \E k \in 1..Len(text) : text[k] = fragment
WillRetryNotify(e) ==
    /\ e.ev = "notify"
    /\ e.fn = "_add_system_message"
    /\ Mentions(e.text, ". Will retry...")

\* C5: a transient outcome of attempt 2 is followed by one error notification
\* that names the attempt count, and nothing else but the re-enable; a
\* transient outcome of an earlier attempt i is followed by a 'will retry'
\* system notification and the worker goes on to attempt i + 1.
TransientOutcomeHandling ==
    \A i \in Positions("response") :
        TransientResponse(events[i]) =>
            /\ Len(events) > i
            /\ IF events[i].attempt = 2
               THEN /\ IsErrorNotify(events[i + 1])
                    /\ Mentions(events[i + 1].text, "3")
                    /\ EndsAfter(i + 1)
               ELSE /\ WillRetryNotify(events[i + 1])
                    /\ \A j \in ErrorPositions : j > i + 1
                    /\ \/ \E w \in WorkerIds :
                             /\ workers[w].pc \in {"sleep", "request"}
                             /\ workers[w].attempt = events[i].attempt + 1
                             /\ \A j \in Positions("http") : j < i
                       \/ \E j \in Positions("http") :
                             j > i /\ events[j].attempt = events[i].attempt + 1

\* C5 witness: attempt 0 timed out and was retried, attempt 2 returned 504.
RetriedThenExhausted ==
    /\ \E i \in Positions("response") : events[i].attempt = 0 /\ events[i].exc = "Timeout"
    /\ \E i \in Positions("response") : events[i].attempt = 2 /\ events[i].status = 504

\* a worker that has sent at least one request
HasSent(w) ==
    InFlight(w) /\ (workers[w].pc \in {"waiting", "finally"} \/ workers[w].attempt > 0)

\* C6: every attempt of an orchestration posts to the same endpoint: once a
\* worker has sent a request, the endpoint of its requests never changes while
\* it is in flight.
EndpointFixedAcrossAttempts ==
    [][\A w \in WorkerIds :
          (HasSent(w) /\ InFlight(w)') => workers[w].endpoint' = workers[w].endpoint]_vars

\* C7: every request of an orchestration carries the key that was configured
\* when its question was submitted.
KeySnapshotAtSubmission ==
    \A w \in WorkerIds : HasSent(w) => workers[w].headers = events[1].key

\* C8: an orchestration emits no answer or error notification before its worker
\* leaves the loop, and exactly one by the time it has ended: the last
\* notification of the history, directly before the re-enable.
OneFinalNotification ==
    /\ Cardinality(FinalPositions) <= 1
    /\ \A w \in WorkerIds :
          (InFlight(w) /\ workers[w].pc /= "finally") => FinalPositions = {}
    /\ (\E w \in WorkerIds : workers[w].pc = "finally") =>
          /\ Cardinality(FinalPositions) = 1
          /\ IsFinalNotify(events[Len(events)])
    /\ OrchestrationOver =>
          /\ Cardinality(FinalPositions) = 1
          /\ Len(events) >= 2
          /\ IsFinalNotify(events[Len(events) - 1])
          /\ events[Len(events)].ev = "reenable"

\* C8 witness: a worker has ended by retry exhaustion, with an error as its
\* one final notification.
ExhaustionReported ==
    /\ OrchestrationOver
    /\ Cardinality(ErrorPositions) = 1
    /\ \E i \in Positions("response") :
          events[i].attempt = 2 /\ TransientResponse(events[i])

\* the notifications a 200 response with body b is to be followed by: the
\* quota notice when want_quota, then the answer
ExpectedOn200(b, want_quota) ==
    (IF want_quota
     THEN <<NotifyEv(0, "_add_system_message",
                     <<"Quota: ", IF b.quota.has_remaining THEN b.quota.remaining ELSE "Unknown",
                       "/", IF b.quota.has_total THEN b.quota.total ELSE "Unknown">>)>>
     ELSE <<>>)
    \o <<NotifyEv(0, "_add_ai_message",
                  <<IF b.has_answer THEN b.answer ELSE "No answer received.">>)>>

\* what follows a response at position i, the attempt numbers aside
Followers(i) ==
    LET rest == After(i) IN [k \in 1..Len(rest) |-> [rest[k] EXCEPT !.attempt = 0]]
Ended(seq) == IF SomeInFlight THEN seq ELSE seq \o <<ReenableEv>>

PreconditionFails ==
    \/ Strip(entry_text) = <<>>
    \/ api_key = <<>>
    \/ is_requesting

\* C10: a click while a precondition fails starts no worker, queues nothing
\* and leaves the transcript, the entry text and the enabled/requesting state
\* as they were.
RejectedSynchronously ==
    [][(PreconditionFails /\ OnAskClicked) =>
          UNCHANGED <<workers, idle_queue, events, chat_buffer, entry_text,
                      is_requesting, entry_sensitive, ask_sensitive, ask_label>>]_vars

\* C10 witness: a click without a key has been rejected with an alert, and
\* nothing has been added to the transcript nor any orchestration started.
RejectedWithoutKey ==
    /\ alert_open
    /\ api_key = <<>>
    /\ Strip(entry_text) /= <<>>
    /\ chat_buffer = <<>>
    /\ events = <<>>
    /\ ~is_requesting

(* ------------------- delivery through the idle queue ------------------- *)
\* the callbacks the latest orchestration has queued, in the order the worker
\* queued them
EmittedCallback(e) ==
    IF e.ev = "reenable" THEN ReenableCallback ELSE Callback(e.fn, e.text)
IsEmission(e) == e.ev \in {"notify", "reenable"}
Emitted ==
    LET em == SelectSeq(events, IsEmission) IN
    [i \in 1..Len(em) |-> EmittedCallback(em[i])]
\* how many of them the main loop has run
DeliveredCount == Len(Emitted) - Len(idle_queue)
\* the inserts the first k of them make, in order (the re-enable makes none)
IsInsertCallback(cb) == cb.fn /= "_set_input_sensitive"
DeliveredInserts(k) ==
    LET cbs == SelectSeq(SubSeq(Emitted, 1, k), IsInsertCallback) IN
    [i \in 1..Len(cbs) |-> InsertOf(cbs[i].fn, cbs[i].msg)]
\* the two inserts _on_ask_clicked makes for the latest question
SubmissionInserts ==
    IF events = <<>> THEN <<>>
    ELSE <<UserInsert(events[1].text), SystemInsert(ThinkingMsg)>>

\* C11: the callbacks of an orchestration run on the UI thread in exactly the
\* order the worker queued them: what is still queued is a suffix of what was
\* queued, the transcript holds the inserts of the callbacks before that suffix
\* in their order (all of them after the question, or the last of them after a
\* clear), the re-enable is queued last, and the attempts of the notifications
\* never decrease.
FifoDelivery ==
    LET em == Emitted
        k == DeliveredCount IN
    /\ k >= 0
    /\ idle_queue = SubSeq(em, k + 1, Len(em))
    /\ LET ins == DeliveredInserts(k) IN
         \/ \E prefix \in {<<>>, <<SystemInsert(ClearedMsg)>>} :
               chat_buffer = prefix \o SubmissionInserts \o ins
         \/ \E j \in 0..Len(ins) :
               chat_buffer = <<SystemInsert(ClearedMsg)>> \o SubSeq(ins, j + 1, Len(ins))
    /\ \A i \in 1..Len(em) : em[i] = ReenableCallback => i = Len(em)
    /\ \A i, j \in Positions("notify") : i < j => events[i].attempt <= events[j].attempt

\* C11 witness: an orchestration that retried twice has ended and all its
\* callbacks have run: the transcript holds the question, the thinking notice
\* and at least seven notifications, and the input is enabled again.
AllDeliveredAfterRetries ==
    /\ OrchestrationOver
    /\ idle_queue = <<>>
    /\ Count("http") = 3
    /\ Len(chat_buffer) >= 9
    /\ chat_buffer[1].tag = "user"
    /\ ~is_requesting

(* --------------------------- order of a retry -------------------------- *)
\* the seconds the schedule prescribes before attempt i (i > 0)
ScheduledDelay(i) == 60 * i
WaitingNotify(e, i) ==
    /\ e.ev = "notify"
    /\ e.fn = "_add_system_message"
    /\ Mentions(e.text, " - retrying in ")
    /\ Mentions(e.text, ToString(ScheduledDelay(i)))
RetryingNotify(e) ==
    e.ev = "notify" /\ e.fn = "_add_system_message" /\ e.text = RetryingMsg

\* C12: the HTTP call of every retry (attempt i > 0) comes right after, in this
\* order, the 'will retry' notification of attempt i - 1, the waiting
\* notification that names the delay before attempt i, the sleep of that many
\* seconds, and the retrying notification; so no retry is sent before its
\* sleep has returned.
RetryOrder ==
    \A j \in Positions("http") :
        LET i == events[j].attempt IN
        i > 0 =>
            /\ j > 5
            /\ events[j - 5].ev = "response" /\ events[j - 5].attempt = i - 1
            /\ WillRetryNotify(events[j - 4]) /\ events[j - 4].attempt = i - 1
            /\ WaitingNotify(events[j - 3], i)
            /\ events[j - 2] = SleepEv(i, ScheduledDelay(i))
            /\ RetryingNotify(events[j - 1])

\* C12 witness: the request of the third attempt has been sent.
ThirdAttemptSent == \E j \in Positions("http") : events[j].attempt = 2

(* ------------------------------ liveness ------------------------------- *)
\* The main loop keeps running queued callbacks, time.sleep returns,
\* requests.post returns or raises within its timeout of 300 seconds, and a
\* started thread keeps being scheduled.
Fairness ==
    /\ WF_vars(IdleDispatch)
    /\ WF_vars(\E w \in WorkerIds : W_Sleep(w))
    /\ WF_vars(\E w \in WorkerIds : W_Request(w))
    /\ WF_vars(\E w \in WorkerIds, o \in Outcomes : W_Response(w, o))
    /\ WF_vars(\E w \in WorkerIds : W_Finally(w))
\* The steps liveness depends on: the handlers that write what a guard of a
\* worker step or of the dispatch reads (the transcript, the entry, the flag,
\* the queue, the threads), without the toggle, the key dialog and the alert,
\* which enable and disable none of them.
NextFair ==
    \/ OnAskClicked
    \/ OnClearClicked
    \/ \E t \in TypedTexts : UserTypes(t)
    \/ \E q \in example_questions : SetQuestion(q)
    \/ IdleDispatch
    \/ \E w \in WorkerIds : W_Sleep(w)
    \/ \E w \in WorkerIds : W_Request(w)
    \/ \E w \in WorkerIds, o \in Outcomes : W_Response(w, o)
    \/ \E w \in WorkerIds : W_Finally(w)
FairSpec == Init /\ [][NextFair]_vars /\ Fairness

\* C13: every started orchestration terminates and _is_requesting becomes
\* false again: _is_requesting is true while a worker is in flight, and
\* whenever it is true a state follows in which it is false and no worker is
\* in flight.
EventuallyReenabled ==
    /\ [](SomeInFlight => is_requesting)
    /\ is_requesting ~> (~is_requesting /\ ~SomeInFlight)

\* C13 witness: an orchestration that went through all three attempts has
\* ended, its re-enable has run and _is_requesting is false again.
ReenabledAfterExhaustion ==
    /\ OrchestrationOver
    /\ Count("http") = 3
    /\ idle_queue = <<>>
    /\ ~is_requesting
    /\ entry_sensitive

(* ------------------------- single writer of the UI --------------------- *)
\* a step of a worker thread: a thread that is in flight moves on or ends
WorkerStep == \E w \in WorkerIds : InFlight(w) /\ workers[w]' /= workers[w]
ui_state == <<chat_buffer, entry_sensitive, ask_sensitive, is_requesting, ask_label>>

\* C14: no step of a worker thread changes the transcript, the sensitivity of
\* the entry and the Ask button, _is_requesting or the button's label: a worker
\* only queues callbacks, and the UI thread makes every such change.
WorkerLeavesUiState == [][WorkerStep => UNCHANGED ui_state]_vars

\* C14 witness: a worker has ended and left the UI as it was: its re-enable is
\* still queued, _is_requesting is still true and the input still insensitive.
WorkerEndedBeforeReenable ==
    /\ OrchestrationOver
    /\ idle_queue /= <<>>
    /\ idle_queue[Len(idle_queue)] = ReenableCallback
    /\ is_requesting
    /\ ~entry_sensitive

(* --------------------------- saved conversation ------------------------ *)
\* a conversation of alternating user/ai entries, a user entry first
Alternating(history) ==
    \A i \in 1..Len(history) : history[i] = Entry(Role(i), history[i].message)
\* the buffer shows the loaded conversation as read_file restored it, and the
\* journal holds what write_file then wrote
RestoredAndSaved ==
    /\ Alternating(conversation_history)
    /\ chat_buffer = RestoredInserts(conversation_history)
    /\ journal = WriteFileData

\* C15: a conversation of alternating user/ai entries restored by read_file and
\* saved by write_file is saved as the identical sequence of entries, so that
\* loading the saved file yields it again, whatever the texts of the messages.
RoundTripIdentity ==
    RestoredAndSaved => journal.conversation_history = conversation_history

\* the message of a user or ai insert: its text without prefix and newlines
MessageOf(insert) == SubSeq(insert.text, 3, Len(insert.text) - 2)
IsDialogue(insert) == insert.tag \in {"user", "ai"}
\* the questions and answers the transcript shows, in order
Dialogue ==
    LET qa == SelectSeq(chat_buffer, IsDialogue) IN
    [i \in 1..Len(qa) |-> Entry(qa[i].tag, MessageOf(qa[i]))]

\* C16: the conversation write_file persists is exactly the questions and
\* answers the transcript shows, in order and with their texts verbatim:
\* system notices and error messages add no entry and change no text.
SavedConversationIsDialogue == WriteFileData.conversation_history = Dialogue

(* ------------------------- the question on the wire -------------------- *)
\* the character two hex digits stand for
Unhex(digits) == CHOOSE c \in Reserved : Hex(c) = digits
IsEscape(text) ==
    /\ Len(text) >= 3
    /\ Head(text) = "%"
    /\ \E c \in Reserved : Hex(c) = <<text[2], text[3]>>
\* one decoding of a query parameter: '+' is a space, %XX is a character
RECURSIVE DecodeOnce(_)
DecodeOnce(text) ==
    IF text = <<>> THEN <<>>
    ELSE IF Head(text) = "+" THEN <<" ">> \o DecodeOnce(Tail(text))
    ELSE IF IsEscape(text)
    THEN <<Unhex(<<text[2], text[3]>>)>> \o DecodeOnce(SubSeq(text, 4, Len(text)))
    ELSE <<Head(text)>> \o DecodeOnce(Tail(text))

\* C17: the question parameter of every request, decoded once, is the
\* question that was submitted.
QuestionEncodedOnce ==
    \A j \in Positions("http") : DecodeOnce(events[j].text) = events[1].text

(* ---------------------- the flag and the sensitivity ------------------- *)
FlagIsInsensitivity ==
    /\ is_requesting = ~entry_sensitive
    /\ is_requesting = ~ask_sensitive
ChangedTogether ==
    /\ (is_requesting' /= is_requesting) = (entry_sensitive' /= entry_sensitive)
    /\ (is_requesting' /= is_requesting) = (ask_sensitive' /= ask_sensitive)

\* C18: _is_requesting is true exactly when the entry and the Ask button are
\* insensitive, it is true whenever a worker is in flight, and no step changes
\* the flag without the sensitivity of both widgets or the other way round.
FlagMatchesSensitivity ==
    /\ []FlagIsInsensitivity
    /\ [](SomeInFlight => is_requesting)
    /\ [][ChangedTogether]_vars

\* C18 witness: the worker waits for the response of its second attempt while
\* the flag is set and both widgets are insensitive.
DisabledWhileWaiting ==
    /\ \E w \in WorkerIds : workers[w].pc = "waiting" /\ workers[w].attempt = 1
    /\ is_requesting
    /\ ~entry_sensitive
    /\ ~ask_sensitive

(* --------------------------- accepted submission ----------------------- *)
\* a step that starts a worker thread
StartsWorker == \E w \in WorkerIds : ~InFlight(w) /\ InFlight(w)'
\* what an accepted click has done by the time any other step is taken
SubmissionEffects ==
    LET question == Strip(entry_text) IN
    /\ entry_text' = <<>>
    /\ chat_buffer' = chat_buffer \o <<UserInsert(question), SystemInsert(ThinkingMsg)>>
    /\ is_requesting' /\ ~entry_sensitive' /\ ~ask_sensitive'
    /\ ask_label' = "Thinking..."
    /\ idle_queue' = idle_queue
    /\ \A w \in WorkerIds :
          (~InFlight(w) /\ InFlight(w)') =>
              workers[w]' = [NoWorker EXCEPT !.pc = "request", !.question = question]
\* the inserts of the notifications the latest orchestration has queued
NotificationInserts ==
    {InsertOf(cb.fn, cb.msg) :
        cb \in {Emitted[i] : i \in {k \in 1..Len(Emitted) : IsInsertCallback(Emitted[k])}}}
QuestionBeforeNotifications ==
    \A p \in 1..Len(chat_buffer) :
        chat_buffer[p].tag = "user" =>
            /\ \A n \in 1..p : chat_buffer[n] \notin NotificationInserts
            /\ p < Len(chat_buffer) /\ chat_buffer[p + 1] = SystemInsert(ThinkingMsg)

\* C19: the step that starts a worker has emptied the entry, appended the
\* question and then the thinking notice to the transcript, disabled the input
\* and set _is_requesting, with nothing queued by the new worker, which has
\* yet to take its first step; so the question in the transcript comes before
\* every notification of its orchestration.
SubmissionBeforeNotifications ==
    /\ [][StartsWorker => SubmissionEffects]_vars
    /\ []QuestionBeforeNotifications

\* C19 witness: the transcript shows the question, the thinking notice and,
\* after them, a notification the worker queued.
NotificationAfterQuestion ==
    /\ Len(chat_buffer) >= 3
    /\ chat_buffer[1] = UserInsert(PygameQuestion)
    /\ chat_buffer[3] \in NotificationInserts

(* ------------------- one orchestration after the other ----------------- *)
\* C20: when the question of the next orchestration is appended, everything
\* the orchestration before it queued has run and its worker has ended: no
\* callback is queued and no worker is in flight in the state the accepted click
\* is made in, so the callbacks queued from then on are all of the new one.
NoInterleaving ==
    [][StartsWorker =>
          /\ idle_queue = <<>>
          /\ ~SomeInFlight
          /\ ~is_requesting
          /\ events /= <<>> => events[Len(events)] = ReenableEv]_vars

\* C20 witness: an orchestration has ended with an answer, all it queued has
\* run, the user has cleared the transcript and typed the next question: the
\* next click is accepted.
ReadyForNextQuestion ==
    /\ OrchestrationOver
    /\ \E i \in FinalPositions : events[i].fn = "_add_ai_message"
    /\ idle_queue = <<>>
    /\ AskRejection = "none"
    /\ chat_buffer = <<SystemInsert(ClearedMsg)>>

(* ---------------------- clearing during an orchestration --------------- *)
\* a clear leaves the orchestration and the state of the input alone
ClearLeavesOrchestration ==
    (is_requesting /\ OnClearClicked) =>
        /\ conversation_history' = <<>>
        /\ chat_buffer' = <<SystemInsert(ClearedMsg)>>
        /\ UNCHANGED <<workers, idle_queue, events, is_requesting, entry_sensitive,
                       ask_sensitive, ask_label>>
\* only the re-enable callback, run from the head of the queue, clears the flag
OnlyReenableClearsFlag ==
    (is_requesting /\ ~is_requesting') =>
        /\ idle_queue /= <<>>
        /\ Head(idle_queue) = ReenableCallback
        /\ idle_queue' = Tail(idle_queue)
\* a notification that leaves the queue is appended to the transcript as it is
NotificationsStillAppended ==
    (idle_queue /= <<>> /\ idle_queue' = Tail(idle_queue)
        /\ IsInsertCallback(Head(idle_queue))) =>
        chat_buffer' =
            Append(chat_buffer, InsertOf(Head(idle_queue).fn, Head(idle_queue).msg))

\* C21: a clear made while an orchestration is under way replaces the
\* transcript by the cleared notice and empties the history, and changes
\* neither the worker, what it has queued, _is_requesting nor the sensitivity
\* of the input; the flag, while it rejects submissions, is cleared by the
\* re-enable callback alone, and the notifications still queued are appended
\* to the cleared transcript.
ClearDuringOrchestration ==
    /\ [][ClearLeavesOrchestration]_vars
    /\ [][OnlyReenableClearsFlag]_vars
    /\ [][NoStartWhileRequesting]_vars
    /\ [][NotificationsStillAppended]_vars

\* C21 witness: the transcript was cleared while a worker was in flight, and a
\* notification the worker queued has been appended right after the cleared
\* notice, with the worker still in flight and the input still disabled.
NotificationAfterClear ==
    /\ SomeInFlight
    /\ is_requesting
    /\ ~entry_sensitive
    /\ Len(chat_buffer) >= 2
    /\ chat_buffer[1] = SystemInsert(ClearedMsg)
    /\ chat_buffer[2] \in NotificationInserts

(* ------------------------------ loading -------------------------------- *)
\* loading the file fails: it cannot be read as a JSON object, or one of its
\* stored entries lacks its type or its message
LoadFails(file) ==
    \/ ~file.readable
    \/ /\ file.has_history
       /\ \E i \in 1..Len(file.conversation_history) :
             \/ ~file.conversation_history[i].has_type
             \/ ~file.conversation_history[i].has_message
IsStoredDialogue(entry) == entry.has_type /\ entry.type \in {"user", "ai"}
\* the inserts of the stored user and ai entries, in stored order
StoredInserts(file) ==
    LET stored == IF file.has_history THEN file.conversation_history ELSE <<>>
        shown == SelectSeq(stored, IsStoredDialogue) IN
    [i \in 1..Len(shown) |->
        [tag |-> shown[i].type,
         text |-> (IF shown[i].type = "user" THEN UserPrefix ELSE AiPrefix)
                  \o shown[i].message \o Newlines]]
LoadIsAllOrNothing(file) ==
    ReadFile(file) =>
        IF LoadFails(file)
        THEN UNCHANGED <<api_key, conversation_history, chat_buffer>>
        ELSE chat_buffer' = StoredInserts(file)

\* C22: a load that fails leaves the API key, the conversation history and the
\* transcript as they were, and a load that succeeds replaces the transcript
\* by the stored user and ai entries in stored order.
ReadFileAllOrNothing == [][\A file \in Files : LoadIsAllOrNothing(file)]_vars

====
